---------------------------- MODULE Spec2Model ----------------------------
(***************************************************************************)
(* A model of the tasq client (src/tasq/remote/client.py): one Tasq client *)
(* of one of the three transports, its caller thread and its gathering     *)
(* thread.  The client object's fields keep the names they have in the     *)
(* source; operators named after methods are those methods, applied to a   *)
(* record of the object's state.                                           *)
(***************************************************************************)
EXTENDS Naturals, Sequences, FiniteSets, TLC

VARIABLES
    kind,                 \* which subclass of BaseTasqClient the object is
    invalid_state_raises, \* Future.set_result on a finished Future raises
                          \* InvalidStateError (Python >= 3.8) or overwrites
    is_connected,         \* self._is_connected
    results,              \* self._results: name -> Future (an index of futures)
    pending,              \* self._pending: a deque, index 1 is its left end
    gatherer,             \* self._gatherer: the Thread, "new", "running", "dead"
    job_result,           \* the local variable job_result of _gather_results
    futures,              \* the TasqFuture objects allocated so far
    client,               \* self._client: the Broker Connection
    sent,                 \* the Jobs handed to self._client.send, in order
    nuuid,                \* how many uuids Job() has generated
    blocked,              \* the Future the caller waits on in schedule_blocking, 0: none
    log,                  \* the kinds of message written to self._log
    last,                 \* the last call or loop iteration, how it ended and
                          \* the lifecycle calls it made on self._client
    result_obj,           \* a Result of tasq/actor.py: its _event and _result
    scope,                \* where a "with client:" block is: "out", "in",
                          \* "exiting" (in __exit__), "released"
    clients,              \* TasqClientPool._clients: a list of client objects
    pool_last,            \* the last call on the pool: for map(), the client
                          \* each item was scheduled on
    run_loops,            \* the Actor subclass's run() loops on recv(); FALSE:
                          \* run() is the base class's, which returns at once
    mailbox,              \* Actor._mailbox: a Queue, index 1 is the next out
    terminated,           \* Actor._terminated: the Event is set
    actor_pc,             \* the actor's thread: "created", "run", "finally",
                          \* "done"
    received,             \* what recv() has returned to run(), in order
    enqueued,             \* everything put into the mailbox, in order
    nsent,                \* sender -> how many messages it has sent
    joins,                \* waiter -> "idle", "waiting" (in join()), "returned"
    actor_last,           \* the last call on the actor or step of its thread
    pc,                   \* caller thread -> where it is inside a method of
                          \* the client, "idle" between calls
    local,                \* caller thread -> the call it is in and its locals
    order                 \* the job_ids in the order callers submitted them

\* The client and its collaborators, without the record of the last call.
clientState ==
    <<kind, invalid_state_raises, is_connected, results, pending, gatherer,
      job_result, futures, client, sent, nuuid, blocked, log>>

clientVars == <<clientState, last>>

\* The client pool.
poolVars == <<clients, pool_last>>

\* The actor, its thread, its senders and the waiters in join().
actorVars ==
    <<run_loops, mailbox, terminated, actor_pc, received, enqueued, nsent,
      joins, actor_last>>

\* Caller threads inside the methods of the client.
threadVars == <<pc, local, order>>

\* The variables that neither the client, nor the Result, nor the "with"
\* block touches.
otherVars == <<poolVars, actorVars, threadVars>>

\* The variables no method of the client touches.
nonClientVars == <<result_obj, scope, otherVars>>

\* The variables no method of the pool touches.
nonPoolVars == <<clientVars, result_obj, scope, actorVars, threadVars>>

\* The variables no method of the actor touches.
nonActorVars == <<clientVars, result_obj, scope, poolVars, threadVars>>

vars == <<clientVars, nonClientVars>>

\* Bounds of the model.
MaxJobs == 2
MaxSets == 2
MaxClients == 3
MaxItems == 3
MaxSends == 2
MaxCloses == 2

Kinds == {"zmq", "redis", "rabbitmq"}
\* The names a caller passes as name=...; "" is schedule() without a name.
Names == {"a", "b"}
NoName == ""
\* A name no caller ever schedules.
GhostName == "ghost"
\* The caller threads of one client: t1 schedules, t2 connects and, where
\* t3 takes no step, disconnects; t3 disconnects.
Threads == {"t1", "t2", "t3"}
\* The locals of a thread that is in no call.  taken is the set of job_ids
\* that the drain loop of the thread's connect() call has popped so far.
NoCall ==
    [op |-> "none", name |-> NoName, job |-> [job_id |-> NoName, name |-> NoName],
     taken |-> {}]
\* The threads that send to the actor, and those that join() it.
Senders == {"s1", "s2"}
Waiters == {"w1", "w2"}

\* uuid.uuid4(): the n-th identifier generated, distinct from every name.
uuid4(n) == "uuid" \o ToString(n)

\* Job(name, func, ...): job_id is generated when no name is supplied, and
\* the name defaults to job_id.
Job(name, n) ==
    LET id == IF name = NoName THEN uuid4(n) ELSE name
    IN  [job_id |-> id, name |-> id]

\* TasqFuture(): a pending Future.  job is the name of the Job that the
\* schedule() call returning this Future sent; sets counts set_result calls.
TasqFuture(job) == [job |-> job.name, done |-> FALSE, value |-> NoName, sets |-> 0]

\* The jobs of the Pending Queue in the order schedule() buffered them: the
\* deque is filled on the left, so its right end is the oldest.
Submitted(q) == [i \in 1..Len(q) |-> q[Len(q) + 1 - i]]

\* The state of the client object and of its collaborators, as one record.
Self ==
    [kind |-> kind, invalid_state_raises |-> invalid_state_raises,
     is_connected |-> is_connected, results |-> results, pending |-> pending,
     gatherer |-> gatherer, job_result |-> job_result, futures |-> futures,
     client |-> client, sent |-> sent, nuuid |-> nuuid, blocked |-> blocked,
     log |-> log, ret |-> "None", fut |-> 0, calls |-> <<>>]

\* The next state is st; the call or iteration op(name) ended as st.ret.
Becomes(st, op, name) ==
    /\ kind' = st.kind
    /\ invalid_state_raises' = st.invalid_state_raises
    /\ is_connected' = st.is_connected
    /\ results' = st.results
    /\ pending' = st.pending
    /\ gatherer' = st.gatherer
    /\ job_result' = st.job_result
    /\ futures' = st.futures
    /\ client' = st.client
    /\ sent' = st.sent
    /\ nuuid' = st.nuuid
    /\ blocked' = st.blocked
    /\ log' = st.log
    /\ last' = [op |-> op, name |-> name, ret |-> st.ret, fut |-> st.fut,
                calls |-> st.calls]

\* schedule() with the Future allocated and registered before the connection
\* is looked at.
schedule_eager(st, name) ==
    LET job == Job(name, st.nuuid + 1)
        st1 == [st EXCEPT !.nuuid = IF name = NoName THEN @ + 1 ELSE @,
                          !.futures = Append(@, TasqFuture(job)),
                          !.results = (name :> (Len(st.futures) + 1)) @@ @]
    IN  IF ~st.is_connected
        THEN [st1 EXCEPT !.pending = <<job>> \o @, !.ret = "None", !.fut = 0]
        ELSE [st1 EXCEPT !.sent = Append(@, job),
                         !.ret = "Future", !.fut = Len(st.futures) + 1]

\* BaseTasqClient.schedule(func, *args, name=name)
schedule(st, name) ==
    LET job == Job(name, st.nuuid + 1)
        st1 == [st EXCEPT !.nuuid = IF name = NoName THEN @ + 1 ELSE @]
        f   == Len(st.futures) + 1
    IN  IF ~st.is_connected
        THEN [st1 EXCEPT !.pending = <<job>> \o @, !.ret = "None", !.fut = 0]
        ELSE [st1 EXCEPT !.futures = Append(@, TasqFuture(job)),
                         !.results = (name :> f) @@ @,
                         !.sent = Append(@, job),
                         !.ret = "Future", !.fut = f]

\* The loop of connect(): while self._pending: job = self._pending.pop();
\* self.schedule(job.func, *job.args, name=job.job_id, **job.kwargs)
RECURSIVE drain(_)
drain(st) ==
    IF st.pending = <<>>
    THEN [st EXCEPT !.ret = "None", !.fut = 0]
    ELSE LET job == st.pending[Len(st.pending)]
             st1 == [st EXCEPT !.pending = SubSeq(@, 1, Len(@) - 1)]
         IN  drain(schedule(st1, job.job_id))

\* Thread.start() on self._gatherer: a thread can be started only once.
gatherer_start(st) ==
    IF st.gatherer = "new"
    THEN [st EXCEPT !.gatherer = "running"]
    ELSE [st EXCEPT !.ret = "RuntimeError"]

\* BaseTasqClient.connect(), which ZMQTasqClient inherits
connect_base(st) ==
    IF st.is_connected
    THEN [st EXCEPT !.ret = "None", !.fut = 0]
    ELSE LET st1 == [st EXCEPT !.client.connected = TRUE,
                               !.calls = Append(@, "connect"),
                               !.is_connected = TRUE,
                               !.ret = "None", !.fut = 0]
             st2 == IF st1.gatherer # "running" THEN gatherer_start(st1) ELSE st1
         IN  IF st2.ret = "RuntimeError" THEN st2 ELSE drain(st2)

\* RedisTasqClient.connect()
connect_redis(st) ==
    IF st.is_connected
    THEN [st EXCEPT !.ret = "None", !.fut = 0]
    ELSE LET st1 == [st EXCEPT !.is_connected = TRUE, !.ret = "None", !.fut = 0]
             st2 == gatherer_start(st1)
         IN  IF st2.ret = "RuntimeError" THEN st2 ELSE drain(st2)

\* RabbitMQTasqClient.connect()
connect_rabbitmq(st) ==
    IF st.is_connected
    THEN [st EXCEPT !.ret = "None", !.fut = 0]
    ELSE LET st1 == [st EXCEPT !.is_connected = TRUE, !.ret = "None", !.fut = 0]
             st2 == gatherer_start(st1)
         IN  IF st2.ret = "RuntimeError" THEN st2 ELSE drain(st2)

\* connect() as the object's class dispatches it
connect(st) ==
    CASE st.kind = "zmq" -> connect_base(st)
      [] st.kind = "redis" -> connect_redis(st)
      [] st.kind = "rabbitmq" -> connect_rabbitmq(st)

\* BaseTasqClient.disconnect()
disconnect_base(st) ==
    IF st.is_connected
    THEN [st EXCEPT !.client.connected = FALSE,
                    !.calls = Append(@, "disconnect"),
                    !.is_connected = FALSE,
                    !.ret = "None", !.fut = 0]
    ELSE [st EXCEPT !.ret = "None", !.fut = 0]

\* RedisTasqClient.disconnect() and RabbitMQTasqClient.disconnect()
disconnect_broker(st) ==
    IF st.is_connected
    THEN [st EXCEPT !.is_connected = FALSE, !.ret = "None", !.fut = 0]
    ELSE [st EXCEPT !.ret = "None", !.fut = 0]

\* disconnect() as the object's class dispatches it
disconnect(st) ==
    IF st.kind = "zmq" THEN disconnect_base(st) ELSE disconnect_broker(st)

\* BaseTasqClient.close()
close(st) ==
    LET st1 == IF st.is_connected THEN disconnect(st) ELSE st
    IN  [st1 EXCEPT !.client.closed = TRUE, !.calls = Append(@, "close"),
                    !.ret = "None", !.fut = 0]

\* schedule_blocking() without its check of the connection.
schedule_blocking_unchecked(st, name) ==
    LET st1 == schedule(st, name)
    IN  IF st1.ret = "None"
        THEN [st1 EXCEPT !.ret = "AttributeError"]
        ELSE [st1 EXCEPT !.blocked = st1.fut, !.ret = "blocked"]

\* BaseTasqClient.schedule_blocking(func, *args, name=name), up to the point
\* where the caller blocks in future.result(timeout)
schedule_blocking(st, name) ==
    IF ~st.is_connected
    THEN [st EXCEPT !.ret = "TasqClientNotConnected", !.fut = 0]
    ELSE LET st1 == schedule(st, name)
         IN  IF st1.ret = "None"
             THEN [st1 EXCEPT !.ret = "AttributeError"]
             ELSE [st1 EXCEPT !.blocked = st1.fut, !.ret = "blocked"]

\* future.result(timeout) with the Future marked finished when the timeout
\* expires.
future_result_expiring(st, expired) ==
    IF st.futures[st.blocked].done
    THEN [st EXCEPT !.blocked = 0, !.ret = "JobResult", !.fut = st.blocked]
    ELSE IF expired
         THEN [st EXCEPT !.blocked = 0, !.ret = "TimeoutError",
                         !.fut = st.blocked,
                         !.futures[st.blocked].done = TRUE]
         ELSE [st EXCEPT !.ret = "blocked", !.fut = st.blocked]

\* future.result(timeout) of schedule_blocking returns the Job Result, or the
\* timeout expires first.
future_result(st, expired) ==
    IF st.futures[st.blocked].done
    THEN [st EXCEPT !.blocked = 0, !.ret = "JobResult", !.fut = st.blocked]
    ELSE IF expired
         THEN [st EXCEPT !.blocked = 0, !.ret = "TimeoutError", !.fut = st.blocked]
         ELSE [st EXCEPT !.ret = "blocked", !.fut = st.blocked]

\* Future.set_result(job_result) as _gather_results calls it on the Future f:
\* a finished Future raises InvalidStateError where the runtime checks it,
\* which nothing in the loop catches; otherwise the value is stored.
set_result(st, f, name) ==
    IF st.futures[f].done /\ st.invalid_state_raises
    THEN [st EXCEPT !.futures[f].sets = @ + 1,
                    !.gatherer = "dead", !.ret = "InvalidStateError"]
    ELSE [st EXCEPT !.futures[f] = [@ EXCEPT !.done = TRUE, !.value = name,
                                              !.sets = @ + 1]]

\* The update of the Results Map without the except clause: the KeyError
\* ends the thread.
update_result_uncaught(st, name) ==
    IF name \in DOMAIN st.results
    THEN set_result(st, st.results[name], name)
    ELSE [st EXCEPT !.gatherer = "dead", !.ret = "KeyError"]

\* try: self._results[job_result.name].set_result(job_result)
\* except KeyError: self._log.error("Can't update result: key not found")
update_result(st, name) ==
    IF name \in DOMAIN st.results
    THEN set_result(st, st.results[name], name)
    ELSE [st EXCEPT !.log = @ \cup {"error: key not found"}]

\* One iteration of ZMQTasqClient._gather_results; ev is what
\* self._client.recv() does: returns a Job Result, returns nothing, raises a
\* ZMQError ("error") or raises ContextTerminated ("terminated"), which the
\* same except clause catches.
gather_results_zmq(st, ev) ==
    LET st0 == [st EXCEPT !.ret = "None", !.fut = 0]
        st1 == IF ev.kind \in {"error", "terminated"}
               THEN [st0 EXCEPT !.log = @ \cup {"warning: zmq error"}]
               ELSE [st0 EXCEPT !.job_result = [bound |-> TRUE,
                                                none |-> ev.kind = "none",
                                                name |-> ev.name]]
    IN  IF ~st1.job_result.bound
        THEN [st1 EXCEPT !.gatherer = "dead", !.ret = "UnboundLocalError"]
        ELSE IF st1.job_result.none
             THEN st1
             ELSE update_result(st1, st1.job_result.name)

\* One iteration of RedisTasqClient._gather_results; an exception of
\* self._client.recv_result() is not caught and ends the thread.
gather_results_redis(st, ev) ==
    LET st0 == [st EXCEPT !.ret = "None", !.fut = 0]
        st1 == [st0 EXCEPT !.job_result = [bound |-> TRUE,
                                           none |-> ev.kind = "none",
                                           name |-> ev.name]]
    IN  IF ev.kind = "error"
        THEN [st0 EXCEPT !.gatherer = "dead", !.ret = "ConnectionError"]
        ELSE IF st1.job_result.none
             THEN st1
             ELSE update_result(st1, st1.job_result.name)

\* One iteration of RabbitMQTasqClient._gather_results
gather_results_rabbitmq(st, ev) ==
    LET st0 == [st EXCEPT !.ret = "None", !.fut = 0]
        st1 == [st0 EXCEPT !.job_result = [bound |-> TRUE,
                                           none |-> ev.kind = "none",
                                           name |-> ev.name]]
    IN  IF ev.kind = "error"
        THEN [st0 EXCEPT !.gatherer = "dead", !.ret = "ConnectionError"]
        ELSE IF st1.job_result.none
             THEN st1
             ELSE update_result(st1, st1.job_result.name)

\* _gather_results as the object's class dispatches it
gather_results(st, ev) ==
    CASE st.kind = "zmq" -> gather_results_zmq(st, ev)
      [] st.kind = "redis" -> gather_results_redis(st, ev)
      [] st.kind = "rabbitmq" -> gather_results_rabbitmq(st, ev)

\* What the broker's receive side can do in one iteration: deliver a Job
\* Result for a job it was sent or for a name it was never sent, deliver
\* nothing, or fail.  Once close() has destroyed the ZMQ context, recv() only
\* raises: ContextTerminated, or another ZMQError.
RecvEvents ==
    IF kind = "zmq" /\ client.closed
    THEN {[kind |-> "terminated", name |-> NoName],
          [kind |-> "error", name |-> NoName]}
    ELSE {[kind |-> "result", name |-> n] :
             n \in {sent[i].name : i \in DOMAIN sent} \cup {GhostName}}
         \cup {[kind |-> "none", name |-> NoName],
               [kind |-> "error", name |-> NoName]}

InitClient ==
    /\ kind \in Kinds
    /\ invalid_state_raises \in BOOLEAN
    /\ is_connected = FALSE
    /\ results = <<>>
    /\ pending = <<>>
    /\ gatherer = "new"
    /\ job_result = [bound |-> FALSE, none |-> TRUE, name |-> NoName]
    /\ futures = <<>>
    /\ client = [connected |-> FALSE, closed |-> FALSE]
    /\ sent = <<>>
    /\ nuuid = 0
    /\ blocked = 0
    /\ log = {}
    /\ last = [op |-> "init", name |-> NoName, ret |-> "None", fut |-> 0,
               calls |-> <<>>]

\* Result.__init__()
InitResult == result_obj = [set |-> FALSE, value |-> "None"]

\* No "with" block has been entered.
InitScope == scope = "out"

\* No TasqClientPool has been constructed.
InitNoPool ==
    /\ clients = <<>>
    /\ pool_last = [op |-> "none", on |-> <<>>, connected |-> <<>>]

\* Actor.__init__(): an empty mailbox, the Event clear, no thread yet.
InitActor ==
    /\ mailbox = <<>>
    /\ terminated = FALSE
    /\ actor_pc = "created"
    /\ received = <<>>
    /\ enqueued = <<>>
    /\ nsent = [s \in Senders |-> 0]
    /\ joins = [w \in Waiters |-> "idle"]
    /\ actor_last = [op |-> "__init__", who |-> "actor"]

\* No thread is inside a method of the client.
InitThreads ==
    /\ pc = [t \in Threads |-> "idle"]
    /\ local = [t \in Threads |-> NoCall]
    /\ order = <<>>

InitOthers == InitResult /\ InitScope /\ InitNoPool /\ InitActor /\ InitThreads

Init == InitClient /\ InitOthers /\ run_loops = TRUE

\* The caller calls schedule(f, name=name), or schedule(f) when name is "".
Schedule(name) ==
    /\ blocked = 0
    /\ Len(sent) + Len(pending) < MaxJobs
    /\ Becomes(schedule(Self, name), "schedule", name)
    /\ UNCHANGED nonClientVars

Connect ==
    /\ blocked = 0
    /\ Becomes(connect(Self), "connect", NoName)
    /\ UNCHANGED nonClientVars

Disconnect ==
    /\ blocked = 0
    /\ Becomes(disconnect(Self), "disconnect", NoName)
    /\ UNCHANGED nonClientVars

Close ==
    /\ blocked = 0
    /\ Becomes(close(Self), "close", NoName)
    /\ UNCHANGED nonClientVars

ScheduleBlocking(name) ==
    /\ blocked = 0
    /\ Len(sent) + Len(pending) < MaxJobs
    /\ Becomes(schedule_blocking(Self, name), "schedule_blocking", name)
    /\ UNCHANGED nonClientVars

\* The caller blocked in schedule_blocking gets its Job Result.
BlockingReturn ==
    /\ blocked # 0
    /\ futures[blocked].done
    /\ Becomes(future_result(Self, FALSE), "schedule_blocking", futures[blocked].job)
    /\ UNCHANGED nonClientVars

\* The timeout of the caller blocked in schedule_blocking expires.
BlockingTimeout ==
    /\ blocked # 0
    /\ ~futures[blocked].done
    /\ Becomes(future_result(Self, TRUE), "schedule_blocking", futures[blocked].job)
    /\ UNCHANGED nonClientVars

\* The gathering thread runs one iteration of its loop.
Gather(ev) ==
    /\ gatherer = "running"
    /\ LET st == gather_results(Self, ev)
       IN  /\ \A f \in DOMAIN st.futures : st.futures[f].sets <= MaxSets
           /\ Becomes(st, "recv_" \o ev.kind, ev.name)
    /\ UNCHANGED nonClientVars

Next ==
    \/ \E name \in Names \cup {NoName} : Schedule(name)
    \/ \E name \in Names \cup {NoName} : ScheduleBlocking(name)
    \/ BlockingReturn
    \/ BlockingTimeout
    \/ Connect
    \/ Disconnect
    \/ Close
    \/ \E ev \in RecvEvents : Gather(ev)

Spec == Init /\ [][Next]_vars

----------------------------------------------------------------------------
(* Reads of Futures: Future.result(timeout) on the TasqFutures of the      *)
(* client, and result(timeout) on a Result of tasq/actor.py.               *)

\* Result.set_result(value)
Result_set_result(r, value) == [r EXCEPT !.value = value, !.set = TRUE]

\* Result.result(timeout): self._event.wait(timeout) returns when the event
\* is set or the timeout expires, and self._result is returned either way.
Result_result(r) == r.value


\* The caller reads the Future f that schedule() returned, with a timeout:
\* the Job Result if the Future is finished, TimeoutError when the timeout
\* expires first.
FutureRead(f) ==
    /\ blocked = 0
    /\ LET st == future_result([Self EXCEPT !.blocked = f], TRUE)
       IN  Becomes(st, "result", IF st.ret = "JobResult"
                                 THEN futures[f].value ELSE NoName)
    /\ UNCHANGED nonClientVars

\* Some thread completes the Result.
ResultSet(value) ==
    /\ result_obj' = Result_set_result(result_obj, value)
    /\ last' = [op |-> "Result.set_result", name |-> value, ret |-> "None",
                fut |-> 0, calls |-> <<>>]
    /\ UNCHANGED <<clientState, scope, otherVars>>

\* Some thread reads the Result with a timeout; the read returns at the
\* latest when the timeout expires.
ResultRead ==
    /\ last' = [op |-> "Result.result", name |-> NoName,
                ret |-> Result_result(result_obj), fut |-> 0, calls |-> <<>>]
    /\ UNCHANGED <<clientState, result_obj, scope, otherVars>>

\* The client with one transport, its Futures read by the caller, and a
\* Result beside it.
InitRead == Init /\ kind = "zmq"

NextRead ==
    \/ \E name \in Names \cup {NoName} : Schedule(name)
    \/ \E name \in Names \cup {NoName} : ScheduleBlocking(name)
    \/ BlockingReturn
    \/ BlockingTimeout
    \/ Connect
    \/ \E ev \in RecvEvents : Gather(ev)
    \/ \E f \in DOMAIN futures : FutureRead(f)
    \/ \E value \in Names : ResultSet(value)
    \/ ResultRead

SpecRead == InitRead /\ [][NextRead]_vars

----------------------------------------------------------------------------
(* The client as a scoped resource: "with client: ...".                    *)

\* BaseTasqClient.pending_results(): the keys whose Future is not done
pending_results(st) ==
    {k \in DOMAIN st.results : ~st.futures[st.results[k]].done}

\* BaseTasqClient.__enter__()
enter(st) == IF ~st.is_connected THEN connect(st) ELSE st

\* BaseTasqClient.__exit__() once its loop "while self.pending_results():
\* pass" has ended
exit(st) == close(st)

\* The "with" statement calls __enter__; the block is entered unless
\* connect() raises.
Enter ==
    /\ scope = "out"
    /\ LET st == enter(Self)
       IN  /\ Becomes(st, "__enter__", NoName)
           /\ scope' = IF st.ret = "None" THEN "in" ELSE "out"
    /\ UNCHANGED <<result_obj, otherVars>>

\* The block ends, normally or by an exception: __exit__ is called and
\* starts its loop.
Leave ==
    /\ scope = "in"
    /\ blocked = 0
    /\ scope' = "exiting"
    /\ last' = [op |-> "__exit__", name |-> NoName, ret |-> "looping",
                fut |-> 0, calls |-> <<>>]
    /\ UNCHANGED <<clientState, result_obj, otherVars>>

\* __exit__ finds pending_results() empty, leaves its loop and closes.
ExitClose ==
    /\ scope = "exiting"
    /\ pending_results(Self) = {}
    /\ Becomes(exit(Self), "__exit__", NoName)
    /\ scope' = "released"
    /\ UNCHANGED <<result_obj, otherVars>>

\* What the block does with the client.
Body ==
    /\ scope = "in"
    /\ \/ \E name \in Names \cup {NoName} : Schedule(name)
       \/ Disconnect
       \/ Connect

NextScope ==
    \/ Enter
    \/ Body
    \/ Leave
    \/ ExitClose
    \/ \E ev \in RecvEvents : Gather(ev)

\* The thread in __exit__ keeps running: when its loop can end, it closes.
\* Nothing makes the broker deliver a result.
SpecScope == Init /\ [][NextScope]_vars /\ WF_vars(ExitClose)

----------------------------------------------------------------------------
(* TasqClientPool: a list of ZMQ clients, and map() over it.               *)

\* ZMQTasqClient(host, psport, plport): a client as its __init__ leaves it
NewClient ==
    [kind |-> "zmq", invalid_state_raises |-> TRUE, is_connected |-> FALSE,
     results |-> <<>>, pending |-> <<>>, gatherer |-> "new",
     job_result |-> [bound |-> FALSE, none |-> TRUE, name |-> NoName],
     futures |-> <<>>, client |-> [connected |-> FALSE, closed |-> FALSE],
     sent |-> <<>>, nuuid |-> 0, blocked |-> 0, log |-> {},
     ret |-> "None", fut |-> 0, calls |-> <<>>]

\* The client c at the start of a call on it: nothing returned yet, no
\* lifecycle call made on its connection.
Called(c) == [c EXCEPT !.ret = "None", !.fut = 0, !.calls = <<>>]

\* One iteration of the loop of TasqClientPool.map.  idx counts from 0 as in
\* the source; the list `clients` is indexed from 1.  m.on and m.connected
\* record, for each item, the client it was scheduled on and whether that
\* client was connected when schedule() was called.
map_step(m) ==
    LET idx == IF m.idx = Len(m.clients) - 1 THEN 0 ELSE m.idx
        c   == Called(m.clients[idx + 1])
        c1  == IF ~c.is_connected THEN connect(c) ELSE c
        c2  == schedule(c1, NoName)
    IN  [clients |-> [m.clients EXCEPT ![idx + 1] = c2],
         idx |-> idx,
         on |-> Append(m.on, idx + 1),
         connected |-> Append(m.connected, c1.is_connected)]

\* TasqClientPool.map(func, iterable) over n items: idx = 0, then the loop
RECURSIVE map_loop(_, _)
map_loop(m, n) == IF n = 0 THEN m ELSE map_loop(map_step(m), n - 1)

map(cs, n) == map_loop([clients |-> cs, idx |-> 0, on |-> <<>>,
                        connected |-> <<>>], n)

\* The jobs the clients of the pool hold or have sent.
RECURSIVE PoolJobs(_)
PoolJobs(cs) ==
    IF cs = <<>> THEN 0
    ELSE Len(cs[1].sent) + Len(cs[1].pending) + PoolJobs(Tail(cs))

\* TasqClientPool(config) with a config of K entries
NewPool(K) ==
    /\ clients = <<>>
    /\ clients' = [i \in 1..K |-> NewClient]
    /\ pool_last' = [op |-> "__init__", on |-> <<>>, connected |-> <<>>]
    /\ UNCHANGED nonPoolVars

\* pool.map(func, iterable) with n items
Map(n) ==
    /\ clients # <<>>
    /\ PoolJobs(clients) + n <= MaxItems
    /\ LET m == map(clients, n)
       IN  /\ clients' = m.clients
           /\ pool_last' = [op |-> "map", on |-> m.on,
                            connected |-> m.connected]
    /\ UNCHANGED nonPoolVars

\* A caller iterating the pool ("for client in pool") connects client i.
PoolClientConnect(i) ==
    /\ clients' = [clients EXCEPT ![i] = connect(Called(@))]
    /\ pool_last' = [op |-> "connect", on |-> <<i>>, connected |-> <<>>]
    /\ UNCHANGED nonPoolVars

\* A caller iterating the pool disconnects client i.
PoolClientDisconnect(i) ==
    /\ clients' = [clients EXCEPT ![i] = disconnect(Called(@))]
    /\ pool_last' = [op |-> "disconnect", on |-> <<i>>, connected |-> <<>>]
    /\ UNCHANGED nonPoolVars

InitPool == Init /\ kind = "zmq" /\ invalid_state_raises

NextPool ==
    \/ \E K \in 1..MaxClients : NewPool(K)
    \/ \E n \in 1..MaxItems : Map(n)
    \/ \E i \in DOMAIN clients : PoolClientConnect(i)
    \/ \E i \in DOMAIN clients : PoolClientDisconnect(i)

SpecPool == InitPool /\ [][NextPool]_vars

----------------------------------------------------------------------------
(* The Mailbox Actor of tasq/actor.py: senders, the actor's thread running *)
(* _bootstrap, and waiters in join().                                      *)

\* The class object ActorExit, used as the termination sentinel.
ActorExit == [from |-> "close", n |-> 0]

\* The n-th message of sender s.
Msg(s, n) == [from |-> s, n |-> n]

\* send() putting the message at the head of the queue
Actor_send_front(mb, msg) == <<msg>> \o mb

\* Actor.send(msg): self._mailbox.put(msg); a Queue is first in, first out
Actor_send(mb, msg) == Append(mb, msg)

\* Actor.close(): self.send(ActorExit)
Actor_close(mb) == Actor_send(mb, ActorExit)

\* recv() returning whatever it takes, the sentinel too
Actor_recv_returning(mb) ==
    [msg |-> Head(mb), mailbox |-> Tail(mb), raised |-> FALSE]

\* Actor.recv() on a mailbox that is not empty: the message taken, what is
\* left, and whether ActorExit is raised instead of returning the message
Actor_recv(mb) ==
    [msg |-> Head(mb), mailbox |-> Tail(mb), raised |-> Head(mb) = ActorExit]

\* join() that does not wait
Actor_join_unblocked(event) == TRUE

\* Actor.join(): self._terminated.wait() returns once the Event is set
Actor_join(event) == event

\* A sender calls send() with its next message.
Send(s) ==
    /\ nsent[s] < MaxSends
    /\ mailbox' = Actor_send(mailbox, Msg(s, nsent[s] + 1))
    /\ enqueued' = Append(enqueued, Msg(s, nsent[s] + 1))
    /\ nsent' = [nsent EXCEPT ![s] = @ + 1]
    /\ actor_last' = [op |-> "send", who |-> s]
    /\ UNCHANGED <<run_loops, terminated, actor_pc, received, joins>>
    /\ UNCHANGED nonActorVars

\* Some thread calls close().
ActorClose ==
    /\ Len(SelectSeq(enqueued, LAMBDA m : m = ActorExit)) < MaxCloses
    /\ mailbox' = Actor_close(mailbox)
    /\ enqueued' = Append(enqueued, ActorExit)
    /\ actor_last' = [op |-> "close", who |-> "caller"]
    /\ UNCHANGED <<run_loops, terminated, actor_pc, received, nsent, joins>>
    /\ UNCHANGED nonActorVars

\* Actor.start(), called once: the thread begins _bootstrap and enters run().
Start ==
    /\ actor_pc = "created"
    /\ actor_pc' = "run"
    /\ actor_last' = [op |-> "start", who |-> "caller"]
    /\ UNCHANGED <<run_loops, mailbox, terminated, received, enqueued, nsent,
                   joins>>
    /\ UNCHANGED nonActorVars

\* run() of a subclass that loops on recv(): one recv().  get() blocks while
\* the mailbox is empty; ActorExit raised in recv() unwinds run() into the
\* except clause of _bootstrap.
RunRecv ==
    /\ actor_pc = "run"
    /\ run_loops
    /\ mailbox # <<>>
    /\ LET r == Actor_recv(mailbox)
       IN  /\ mailbox' = r.mailbox
           /\ received' = IF r.raised THEN received ELSE Append(received, r.msg)
           /\ actor_pc' = IF r.raised THEN "finally" ELSE "run"
    /\ actor_last' = [op |-> "recv", who |-> "actor"]
    /\ UNCHANGED <<run_loops, terminated, enqueued, nsent, joins>>
    /\ UNCHANGED nonActorVars

\* run() of the base class: pass.
RunReturn ==
    /\ actor_pc = "run"
    /\ ~run_loops
    /\ actor_pc' = "finally"
    /\ actor_last' = [op |-> "run", who |-> "actor"]
    /\ UNCHANGED <<run_loops, mailbox, terminated, received, enqueued, nsent,
                   joins>>
    /\ UNCHANGED nonActorVars

\* The finally clause of _bootstrap: self._terminated.set(); the thread ends.
Bootstrap_finally ==
    /\ actor_pc = "finally"
    /\ terminated' = TRUE
    /\ actor_pc' = "done"
    /\ actor_last' = [op |-> "_bootstrap", who |-> "actor"]
    /\ UNCHANGED <<run_loops, mailbox, received, enqueued, nsent, joins>>
    /\ UNCHANGED nonActorVars

\* A waiter calls join() and blocks in self._terminated.wait().
JoinCall(w) ==
    /\ joins[w] = "idle"
    /\ joins' = [joins EXCEPT ![w] = "waiting"]
    /\ actor_last' = [op |-> "join", who |-> w]
    /\ UNCHANGED <<run_loops, mailbox, terminated, actor_pc, received,
                   enqueued, nsent>>
    /\ UNCHANGED nonActorVars

\* The wait of a waiter ends and its join() returns.
JoinReturn(w) ==
    /\ joins[w] = "waiting"
    /\ Actor_join(terminated)
    /\ joins' = [joins EXCEPT ![w] = "returned"]
    /\ actor_last' = [op |-> "join returns", who |-> w]
    /\ UNCHANGED <<run_loops, mailbox, terminated, actor_pc, received,
                   enqueued, nsent>>
    /\ UNCHANGED nonActorVars

\* An actor of either class beside the untouched client.
InitActorSpec ==
    /\ InitClient /\ kind = "zmq" /\ invalid_state_raises
    /\ InitOthers
    /\ run_loops \in BOOLEAN

\* The steps of the actor's own thread.
ActorThread == RunRecv \/ RunReturn \/ Bootstrap_finally

NextActor ==
    \/ \E s \in Senders : Send(s)
    \/ ActorClose
    \/ Start
    \/ ActorThread
    \/ \E w \in Waiters : JoinCall(w)
    \/ \E w \in Waiters : JoinReturn(w)

SpecActor == InitActorSpec /\ [][NextActor]_vars

\* The threads are scheduled: the actor's thread takes its next step when
\* it can, and a waiter whose wait can end returns.
SpecActorLive ==
    /\ SpecActor
    /\ WF_vars(ActorThread)
    /\ \A w \in Waiters : WF_vars(JoinReturn(w))

----------------------------------------------------------------------------
(* Two threads in the methods of one ZMQ client without any lock: each     *)
(* action is one read or write of a field of the object.                   *)

\* What no step of a caller thread in schedule, schedule_blocking, connect
\* or disconnect touches.
nonThreadVars ==
    <<kind, invalid_state_raises, job_result, blocked, log, result_obj, scope,
      poolVars, actorVars>>

\* The step belongs to the call op(name) of its thread, which is still
\* "running" or ends as ret.
Did(op, name, ret) ==
    last' = [op |-> op, name |-> name, ret |-> ret, fut |-> 0, calls |-> <<>>]

\* schedule(f): name = kwargs.pop('name', u''); job = Job(name, f)
ScheduleCall(t) ==
    /\ pc[t] = "idle"
    /\ nuuid < MaxJobs
    /\ LET job == Job(NoName, nuuid + 1)
       IN  /\ local' = [local EXCEPT ![t] = [op |-> "schedule", name |-> NoName,
                                             job |-> job, taken |-> {}]]
           /\ order' = Append(order, job.job_id)
           /\ Did("schedule", job.job_id, "running")
    /\ nuuid' = nuuid + 1
    /\ pc' = [pc EXCEPT ![t] = "s_check"]
    /\ UNCHANGED <<is_connected, results, pending, gatherer, futures, client,
                   sent>>
    /\ UNCHANGED nonThreadVars

\* schedule_blocking(f): if not self.is_connected: raise
\* TasqClientNotConnected; otherwise it calls self.schedule, which builds
\* the Job.
BlockingCall(t) ==
    /\ pc[t] = "idle"
    /\ nuuid < MaxJobs
    /\ IF ~is_connected
       THEN /\ Did("schedule_blocking", NoName, "TasqClientNotConnected")
            /\ UNCHANGED <<nuuid, pc, local, order>>
       ELSE LET job == Job(NoName, nuuid + 1)
            IN  /\ local' = [local EXCEPT ![t] = [op |-> "schedule_blocking",
                                                  name |-> NoName, job |-> job,
                                                  taken |-> {}]]
                /\ order' = Append(order, job.job_id)
                /\ Did("schedule_blocking", job.job_id, "running")
                /\ nuuid' = nuuid + 1
                /\ pc' = [pc EXCEPT ![t] = "s_check"]
    /\ UNCHANGED <<is_connected, results, pending, gatherer, futures, client,
                   sent>>
    /\ UNCHANGED nonThreadVars

\* schedule: if not self.is_connected
SchedCheck(t) ==
    /\ pc[t] = "s_check"
    /\ pc' = [pc EXCEPT ![t] = IF ~is_connected THEN "s_append" ELSE "s_register"]
    /\ Did(local[t].op, local[t].job.job_id, "running")
    /\ UNCHANGED <<is_connected, results, pending, gatherer, futures, client,
                   sent, nuuid, local, order>>
    /\ UNCHANGED nonThreadVars

\* schedule: self._pending.appendleft(job); return None.  In connect() the
\* loop goes on; in schedule_blocking, future.result(timeout) on None raises
\* AttributeError.
SchedAppend(t) ==
    /\ pc[t] = "s_append"
    /\ pending' = <<local[t].job>> \o pending
    /\ CASE local[t].op = "schedule" ->
              /\ pc' = [pc EXCEPT ![t] = "idle"]
              /\ Did("schedule", local[t].job.job_id, "None")
         [] local[t].op = "connect" ->
              /\ pc' = [pc EXCEPT ![t] = "c_loop"]
              /\ Did("connect", local[t].job.job_id, "running")
         [] local[t].op = "schedule_blocking" ->
              /\ pc' = [pc EXCEPT ![t] = "idle"]
              /\ Did("schedule_blocking", local[t].job.job_id, "AttributeError")
    /\ UNCHANGED <<is_connected, results, gatherer, futures, client, sent,
                   nuuid, local, order>>
    /\ UNCHANGED nonThreadVars

\* schedule: future = TasqFuture(); self._results[name] = future
SchedRegister(t) ==
    /\ pc[t] = "s_register"
    /\ futures' = Append(futures, TasqFuture(local[t].job))
    /\ results' = (local[t].name :> (Len(futures) + 1)) @@ results
    /\ pc' = [pc EXCEPT ![t] = "s_send"]
    /\ Did(local[t].op, local[t].job.job_id, "running")
    /\ UNCHANGED <<is_connected, pending, gatherer, client, sent, nuuid, local,
                   order>>
    /\ UNCHANGED nonThreadVars

\* schedule: self._client.send(job); return future.  In connect() the loop
\* goes on; schedule_blocking goes on to future.result(timeout).
SchedSend(t) ==
    /\ pc[t] = "s_send"
    /\ sent' = Append(sent, local[t].job)
    /\ CASE local[t].op = "schedule" ->
              /\ pc' = [pc EXCEPT ![t] = "idle"]
              /\ Did("schedule", local[t].job.job_id, "Future")
         [] local[t].op = "connect" ->
              /\ pc' = [pc EXCEPT ![t] = "c_loop"]
              /\ Did("connect", local[t].job.job_id, "running")
         [] local[t].op = "schedule_blocking" ->
              /\ pc' = [pc EXCEPT ![t] = "sb_wait"]
              /\ Did("schedule_blocking", local[t].job.job_id, "running")
    /\ UNCHANGED <<is_connected, results, pending, gatherer, futures, client,
                   nuuid, local, order>>
    /\ UNCHANGED nonThreadVars

\* schedule_blocking: future.result(timeout) ends; no result arrives here,
\* so it ends with the timeout.
BlockingWaitEnds(t) ==
    /\ pc[t] = "sb_wait"
    /\ pc' = [pc EXCEPT ![t] = "idle"]
    /\ Did("schedule_blocking", local[t].job.job_id, "TimeoutError")
    /\ UNCHANGED <<is_connected, results, pending, gatherer, futures, client,
                   sent, nuuid, local, order>>
    /\ UNCHANGED nonThreadVars

\* connect: if not self.is_connected
ConnectCall(t) ==
    /\ pc[t] = "idle"
    /\ IF is_connected
       THEN /\ Did("connect", NoName, "None")
            /\ UNCHANGED <<pc, local>>
       ELSE /\ Did("connect", NoName, "running")
            /\ pc' = [pc EXCEPT ![t] = "c_client"]
            /\ local' = [local EXCEPT ![t] = [NoCall EXCEPT !.op = "connect"]]
    /\ UNCHANGED <<is_connected, results, pending, gatherer, futures, client,
                   sent, nuuid, order>>
    /\ UNCHANGED nonThreadVars

\* connect: self._client.connect()
ConnectClient(t) ==
    /\ pc[t] = "c_client"
    /\ client' = [client EXCEPT !.connected = TRUE]
    /\ pc' = [pc EXCEPT ![t] = "c_flag"]
    /\ Did("connect", NoName, "running")
    /\ UNCHANGED <<is_connected, results, pending, gatherer, futures, sent,
                   nuuid, local, order>>
    /\ UNCHANGED nonThreadVars

\* connect: self._is_connected = True
ConnectFlag(t) ==
    /\ pc[t] = "c_flag"
    /\ is_connected' = TRUE
    /\ pc' = [pc EXCEPT ![t] = "c_start"]
    /\ Did("connect", NoName, "running")
    /\ UNCHANGED <<results, pending, gatherer, futures, client, sent, nuuid,
                   local, order>>
    /\ UNCHANGED nonThreadVars

\* connect: if not self._gatherer.is_alive(): self._gatherer.start().  The
\* gathering thread takes no step here, so it stays alive once started.
ConnectStart(t) ==
    /\ pc[t] = "c_start"
    /\ gatherer' = IF gatherer # "running" THEN gatherer_start(Self).gatherer
                   ELSE gatherer
    /\ pc' = [pc EXCEPT ![t] = "c_loop"]
    /\ Did("connect", NoName, "running")
    /\ UNCHANGED <<is_connected, results, pending, futures, client, sent,
                   nuuid, local, order>>
    /\ UNCHANGED nonThreadVars

\* connect: while self._pending: job = self._pending.pop();
\* self.schedule(job.func, *job.args, name=job.job_id, **job.kwargs)
ConnectLoop(t) ==
    /\ pc[t] = "c_loop"
    /\ IF pending = <<>>
       THEN /\ pc' = [pc EXCEPT ![t] = "idle"]
            /\ Did("connect", NoName, "None")
            /\ UNCHANGED <<pending, local>>
       ELSE LET job == pending[Len(pending)]
            IN  /\ pending' = SubSeq(pending, 1, Len(pending) - 1)
                /\ local' = [local EXCEPT ![t] =
                                [op |-> "connect", name |-> job.job_id,
                                 job |-> Job(job.job_id, nuuid + 1),
                                 taken |-> local[t].taken \cup {job.job_id}]]
                /\ pc' = [pc EXCEPT ![t] = "s_check"]
                /\ Did("connect", job.job_id, "running")
    /\ UNCHANGED <<is_connected, results, gatherer, futures, client, sent,
                   nuuid, order>>
    /\ UNCHANGED nonThreadVars

\* disconnect: if self.is_connected
DisconnectCall(t) ==
    /\ pc[t] = "idle"
    /\ IF ~is_connected
       THEN /\ Did("disconnect", NoName, "None")
            /\ UNCHANGED <<pc, local>>
       ELSE /\ Did("disconnect", NoName, "running")
            /\ pc' = [pc EXCEPT ![t] = "d_client"]
            /\ local' = [local EXCEPT ![t] = [NoCall EXCEPT !.op = "disconnect"]]
    /\ UNCHANGED <<is_connected, results, pending, gatherer, futures, client,
                   sent, nuuid, order>>
    /\ UNCHANGED nonThreadVars

\* disconnect: self._client.disconnect()
DisconnectClient(t) ==
    /\ pc[t] = "d_client"
    /\ client' = [client EXCEPT !.connected = FALSE]
    /\ pc' = [pc EXCEPT ![t] = "d_flag"]
    /\ Did("disconnect", NoName, "running")
    /\ UNCHANGED <<is_connected, results, pending, gatherer, futures, sent,
                   nuuid, local, order>>
    /\ UNCHANGED nonThreadVars

\* disconnect: self._is_connected = False
DisconnectFlag(t) ==
    /\ pc[t] = "d_flag"
    /\ is_connected' = FALSE
    /\ pc' = [pc EXCEPT ![t] = "idle"]
    /\ Did("disconnect", NoName, "None")
    /\ UNCHANGED <<results, pending, gatherer, futures, client, sent, nuuid,
                   local, order>>
    /\ UNCHANGED nonThreadVars

\* The steps inside schedule(), by whichever thread is in it.
ScheduleSteps(t) ==
    SchedCheck(t) \/ SchedAppend(t) \/ SchedRegister(t) \/ SchedSend(t)

\* The thread that connects and disconnects.
Connector(t) ==
    \/ ConnectCall(t) \/ ConnectClient(t) \/ ConnectFlag(t) \/ ConnectStart(t)
    \/ ConnectLoop(t) \/ ScheduleSteps(t)
    \/ DisconnectCall(t) \/ DisconnectClient(t) \/ DisconnectFlag(t)

InitConc == Init /\ kind = "zmq" /\ invalid_state_raises

\* t1 calls schedule(), t2 calls connect() and disconnect().
NextConc ==
    \/ ScheduleCall("t1")
    \/ ScheduleSteps("t1")
    \/ Connector("t2")

SpecConc == InitConc /\ [][NextConc]_vars

\* t1 calls schedule_blocking(), t2 calls connect() and disconnect().
NextConcBlocking ==
    \/ BlockingCall("t1")
    \/ ScheduleSteps("t1")
    \/ BlockingWaitEnds("t1")
    \/ Connector("t2")

SpecConcBlocking == InitConc /\ [][NextConcBlocking]_vars

\* The steps of a thread in connect(), its drain loop's schedule() included.
Connecting(t) ==
    \/ ConnectCall(t) \/ ConnectClient(t) \/ ConnectFlag(t) \/ ConnectStart(t)
    \/ ConnectLoop(t) \/ ScheduleSteps(t)

\* The steps of a thread in disconnect().
Disconnecting(t) == DisconnectCall(t) \/ DisconnectClient(t) \/ DisconnectFlag(t)

\* t1 calls schedule(), t2 calls connect(), t3 calls disconnect().
NextDrain ==
    \/ ScheduleCall("t1")
    \/ ScheduleSteps("t1")
    \/ Connecting("t2")
    \/ Disconnecting("t3")

\* The thread in connect() is scheduled: it takes its next step when it can.
SpecDrain == InitConc /\ [][NextDrain]_vars /\ WF_vars(Connecting("t2"))

----------------------------------------------------------------------------
(* The claims.  A step is told from `last`, which every call and every     *)
(* iteration of the gathering loop sets.                                   *)

\* C1: on a disconnected client, connect() sends each buffered job exactly
\* once, in the order the jobs were submitted, and leaves the Pending Queue
\* empty.
C1_DrainSendsEachJobInOrder ==
    [][(last'.op = "connect" /\ ~is_connected) =>
         /\ Len(sent') = Len(sent) + Len(pending)
         /\ \A i \in 1..Len(pending) :
               sent'[Len(sent) + i].job_id = Submitted(pending)[i].job_id
         /\ pending' = <<>>]_vars

\* C2: schedule() on a connected client registers the Future it returns
\* under the name of the Job it sends, and a Job Result carrying a sent job's
\* name completes the Future schedule() returned for that job.
C2_FutureRegisteredUnderJobName ==
    [][/\ (last'.op = "schedule" /\ is_connected) =>
            /\ last'.ret = "Future"
            /\ sent'[Len(sent')].name \in DOMAIN results'
            /\ results'[sent'[Len(sent')].name] = last'.fut
       /\ (last'.op = "recv_result") =>
            \A f \in DOMAIN futures :
                futures[f].job = last'.name => futures'[f].done]_vars

\* C3: a job buffered under an explicit name n is, by the next connect(),
\* sent exactly once as a Job named n and registered under key n with a
\* Future that a Job Result named n then completes.
C3_BufferedNamedJobSentAndRegistered ==
    [][/\ (last'.op = "connect" /\ ~is_connected) =>
            \A n \in Names :
                (\E i \in DOMAIN pending : pending[i].name = n) =>
                    /\ Cardinality({j \in (Len(sent) + 1)..Len(sent') :
                                       sent'[j].name = n})
                         = Cardinality({i \in DOMAIN pending : pending[i].name = n})
                    /\ n \in DOMAIN results'
                    /\ futures'[results'[n]].job = n
       /\ (last'.op = "recv_result" /\ last'.name \in DOMAIN results) =>
            /\ futures'[results[last'.name]].done
            /\ futures'[results[last'.name]].value = last'.name]_vars

\* C4: schedule() on a disconnected client returns None, puts exactly one
\* Job, the new one, into the Pending Queue and changes nothing else: no
\* Future, no entry of the Results Map, nothing sent, the connection as it
\* was.
C4_ScheduleDisconnectedOnlyBuffers ==
    [][(last'.op = "schedule" /\ ~is_connected) =>
         /\ last'.ret = "None"
         /\ last'.fut = 0
         /\ Len(pending') = Len(pending) + 1
         /\ Tail(pending') = pending
         /\ Head(pending').name = IF last'.name = NoName THEN uuid4(nuuid')
                                                         ELSE last'.name
         /\ results' = results
         /\ futures' = futures
         /\ sent' = sent
         /\ is_connected' = is_connected
         /\ client' = client
         /\ gatherer' = gatherer]_vars

\* C4 happens: a second job has been buffered behind a first one.
C4_Witness ==
    /\ last.op = "schedule"
    /\ last.ret = "None"
    /\ ~is_connected
    /\ Len(pending) = 2

\* C5: schedule_blocking() on a disconnected client raises
\* TasqClientNotConnected and changes neither the Pending Queue, nor the
\* Results Map, nor the Futures, nor what was sent.
C5_ScheduleBlockingDisconnectedRaises ==
    [][(last'.op = "schedule_blocking" /\ ~is_connected /\ blocked = 0) =>
         /\ last'.ret = "TasqClientNotConnected"
         /\ blocked' = 0
         /\ pending' = pending
         /\ results' = results
         /\ futures' = futures
         /\ sent' = sent
         /\ is_connected' = is_connected]_vars

\* C5 happens: the call was refused with a job waiting in the Pending Queue.
C5_Witness ==
    /\ last.op = "schedule_blocking"
    /\ last.ret = "TasqClientNotConnected"
    /\ ~is_connected
    /\ pending # <<>>

\* C6: set_result is called at most once on each Future.
C6_NoFutureSetTwice ==
    \A f \in DOMAIN futures : futures[f].sets <= 1

\* C7: an entry of the Results Map is never removed and never replaced by
\* another Future.
C7_ResultsEntriesKept ==
    [][\A k \in DOMAIN results :
          k \in DOMAIN results' /\ results'[k] = results[k]]_vars

\* C8: the gathering loop is started at the first connect() and never again,
\* and every connect() of a disconnected client returns normally, leaves the
\* client connected and the Pending Queue drained.
C8_ReconnectCompletes ==
    [][(last'.op = "connect" /\ ~is_connected) =>
         /\ last'.ret = "None"
         /\ is_connected'
         /\ pending' = <<>>
         /\ gatherer = "new" => gatherer' = "running"
         /\ gatherer # "new" => gatherer' = gatherer]_vars

\* C9: a Job Result whose name is no key of the Results Map is dropped: it
\* changes no Future and no entry of the map, the anomaly is logged and the
\* loop keeps running; and once that has happened, a result whose name is in
\* the map leaves the Future registered under it completed.
C9_UnknownKeyDropped ==
    [][/\ (last'.op = "recv_result" /\ last'.name \notin DOMAIN results) =>
            /\ results' = results
            /\ futures' = futures
            /\ gatherer' = "running"
            /\ "error: key not found" \in log'
       /\ (last'.op = "recv_result" /\ last'.name \in DOMAIN results
             /\ "error: key not found" \in log) =>
            /\ results' = results
            /\ futures'[results[last'.name]].done]_vars

\* C9 happens: after an unknown result was dropped, a result for a
\* registered name has completed its Future.
C9_Witness ==
    /\ "error: key not found" \in log
    /\ last.op = "recv_result"
    /\ last.name \in DOMAIN results
    /\ futures[results[last.name]].done
    /\ futures[results[last.name]].sets = 1
    /\ gatherer = "running"

\* C10: a receive error of the ZMQ connection leaves the gathering loop
\* running and every Future as it was.
C10_ReceiveErrorSurvived ==
    [][(last'.op = "recv_error" /\ kind = "zmq") =>
         /\ gatherer' = "running"
         /\ futures' = futures]_vars

\* C11: when recv() raises ContextTerminated the gathering loop exits, and
\* no Future is changed by it, so that the unresolved ones stay unresolved.
C11_TerminatedEndsLoop ==
    [][(last'.op = "recv_terminated") =>
         /\ gatherer' = "dead"
         /\ futures' = futures]_vars

\* C12: connect() on a connected client and disconnect() on a disconnected
\* one change nothing and call nothing on the broker; disconnect() on a
\* connected client calls the broker's disconnect once and leaves the client
\* disconnected.
C12_ConnectDisconnectIdempotent ==
    [][/\ (last'.op = "connect" /\ is_connected) =>
            /\ last'.calls = <<>>
            /\ UNCHANGED <<is_connected, results, pending, gatherer, futures,
                           client, sent>>
       /\ (last'.op = "disconnect" /\ ~is_connected) =>
            /\ last'.calls = <<>>
            /\ UNCHANGED <<is_connected, results, pending, gatherer, futures,
                           client, sent>>
       /\ (last'.op = "disconnect" /\ is_connected) =>
            /\ last'.calls = <<"disconnect">>
            /\ ~is_connected']_vars

\* C13 as stated: a read with a timeout of a Future that is not completed
\* returns when the timeout expires, it does not raise; this for the Result
\* of the actor module and for the Futures of schedule() and
\* schedule_blocking().
C13_TimeoutReadReturns ==
    [][/\ (last'.op = "Result.result" /\ ~result_obj.set) =>
            last'.ret = "None"
       /\ (last'.op = "result" /\ ~futures[last'.fut].done) =>
            last'.ret # "TimeoutError"
       /\ (last'.op = "schedule_blocking" /\ blocked # 0) =>
            last'.ret # "TimeoutError"]_vars

\* C13 amended: a read with a timeout of a Result that is not completed
\* returns None, and of a TasqFuture that is not completed raises
\* TimeoutError; either read leaves the Future as it was, uncompleted and in
\* the Results Map, and a read of a completed one returns what it was
\* completed with.
C13_TimeoutReadLeavesFuture ==
    [][/\ (last'.op = "Result.result") =>
            /\ result_obj' = result_obj
            /\ last'.ret = IF result_obj.set THEN result_obj.value ELSE "None"
       /\ (last'.op = "result") =>
            /\ futures' = futures
            /\ results' = results
            /\ last'.ret = IF futures[last'.fut].done THEN "JobResult"
                                                      ELSE "TimeoutError"
            /\ futures[last'.fut].done => last'.name = futures[last'.fut].value
       /\ (last'.op = "schedule_blocking" /\ blocked # 0) =>
            /\ futures' = futures
            /\ results' = results
            /\ last'.fut = blocked
            /\ last'.ret = IF futures[blocked].done THEN "JobResult"
                                                    ELSE "TimeoutError"]_vars

\* C13 happens: the read of a Future that is registered in the Results Map
\* and not completed has timed out.
C13_Witness ==
    /\ last.op = "result"
    /\ last.ret = "TimeoutError"
    /\ ~futures[last.fut].done
    /\ \E k \in DOMAIN results : results[k] = last.fut

\* C14: once the scope is being left, close() is eventually called: the
\* broker connection is closed and the client is disconnected.
C14_ScopeReleased ==
    (scope = "exiting") ~> (scope = "released" /\ client.closed /\ ~is_connected)

\* C15: TasqClientPool.map over a pool of K clients schedules its i-th item
\* (from 0) on client i mod K, and every client is connected when an item is
\* scheduled on it.
C15_MapRoundRobin ==
    [][pool_last'.op = "map" =>
         \A i \in DOMAIN pool_last'.on :
            /\ pool_last'.on[i] = ((i - 1) % Len(clients)) + 1
            /\ pool_last'.connected[i]]_vars

\* The messages of sender s in the sequence q, in order.
FromSender(q, s) == SelectSeq(q, LAMBDA m : m.from = s)

\* q up to, and without, its first termination sentinel.
BeforeExit(q) ==
    IF \E i \in DOMAIN q : q[i] = ActorExit
    THEN SubSeq(q, 1, (CHOOSE i \in DOMAIN q :
                          /\ q[i] = ActorExit
                          /\ \A j \in 1..(i - 1) : q[j] # ActorExit) - 1)
    ELSE q

IsPrefix(p, q) == Len(p) <= Len(q) /\ p = SubSeq(q, 1, Len(p))

\* C16: the mailbox is FIFO per sender: the messages of one sender that
\* recv() has returned, followed by those still in the mailbox, are exactly
\* the messages the sender sent, in the order it sent them, each once.
C16_MailboxFifoPerSender ==
    \A s \in Senders :
        FromSender(received, s) \o FromSender(mailbox, s)
            = [i \in 1..nsent[s] |-> Msg(s, i)]

\* Two messages of one sender were received with another sender's between.
C16_Witness ==
    received = <<Msg("s1", 1), Msg("s2", 1), Msg("s1", 2)>>

\* C17: a run loop on recv() receives nothing enqueued after the first
\* termination sentinel, and once a join() has returned it has exited having
\* received every message enqueued before that sentinel.
C17_ExitOnFirstSentinel ==
    run_loops =>
        /\ IsPrefix(received, BeforeExit(enqueued))
        /\ (\E w \in Waiters : joins[w] = "returned") =>
              /\ actor_pc = "done"
              /\ \E i \in DOMAIN enqueued : enqueued[i] = ActorExit
              /\ received = BeforeExit(enqueued)

\* A join() has returned, a message was received before the exit, and a
\* message and a second sentinel enqueued after the first are still there.
C17_Witness ==
    /\ run_loops
    /\ \E w \in Waiters : joins[w] = "returned"
    /\ received # <<>>
    /\ \E i, j \in DOMAIN mailbox :
          mailbox[i] = ActorExit /\ mailbox[j] # ActorExit

\* created, running or terminated
Lifecycle ==
    IF terminated THEN "terminated"
    ELSE IF actor_pc = "created" THEN "created" ELSE "running"

\* close() has been called.
Closed == \E i \in DOMAIN enqueued : enqueued[i] = ActorExit

\* C18: the lifecycle is created -> running -> terminated; terminated is
\* entered only by the actor's thread after run() has finished and is never
\* left; a join() returns only when the actor is terminated; once the actor
\* is started and closed, every join() eventually returns.
C18_ActorLifecycle ==
    /\ [](\A w \in Waiters : joins[w] = "returned" => terminated)
    /\ [][/\ <<Lifecycle, Lifecycle'>> \in
                {<<"created", "created">>, <<"created", "running">>,
                 <<"running", "running">>, <<"running", "terminated">>,
                 <<"terminated", "terminated">>}
           /\ (~terminated /\ terminated') =>
                 (actor_last'.who = "actor" /\ actor_pc = "finally")
           /\ \A w \in Waiters :
                 (joins[w] # "returned" /\ joins'[w] = "returned") => terminated
          ]_vars
    /\ \A w \in Waiters :
          (joins[w] = "waiting" /\ actor_pc # "created" /\ Closed)
              ~> (joins[w] = "returned")

\* The actor was started, closed twice and terminated, and both waiters'
\* join() calls have returned.
C18_Witness ==
    /\ run_loops
    /\ terminated
    /\ Len(SelectSeq(enqueued, LAMBDA m : m = ActorExit)) = MaxCloses
    /\ \A w \in Waiters : joins[w] = "returned"

\* The place of the job id in the order of submission.
Pos(id) == CHOOSE i \in DOMAIN order : order[i] = id

\* C19: with schedule() on one thread and connect() and disconnect() on
\* another, the jobs sent to the broker are in the order of their submission,
\* none twice, and every sent job was submitted before every job still in
\* the Pending Queue.
C19_SubmissionOrderKept ==
    /\ \A i, j \in DOMAIN sent :
          i < j => Pos(sent[i].job_id) < Pos(sent[j].job_id)
    /\ \A i \in DOMAIN sent : \A p \in DOMAIN pending :
          Pos(sent[i].job_id) < Pos(pending[p].job_id)

\* C20: whatever a concurrent disconnect() does, no step of
\* schedule_blocking() changes the Pending Queue, and the call ends with the
\* NotConnected error or after waiting on the Future of the job it sent.
C20_BlockingNeverBuffers ==
    [][last'.op = "schedule_blocking" =>
         /\ pending' = pending
         /\ last'.ret \in {"running", "TasqClientNotConnected", "JobResult",
                           "TimeoutError"}]_vars

\* C21: disconnect() leaves the Results Map, the Pending Queue, the Futures
\* and the gathering loop as they were, and a Job Result received while the
\* client is disconnected completes the Future of the sent job it names.
C21_DisconnectKeepsGathering ==
    [][/\ (last'.op = "disconnect") =>
            /\ results' = results
            /\ pending' = pending
            /\ futures' = futures
            /\ gatherer' = gatherer
       /\ (last'.op = "recv_result" /\ ~is_connected) =>
            \A f \in DOMAIN futures :
                futures[f].job = last'.name => futures'[f].done]_vars

\* C22: a connect() call in progress returns, whatever schedule() and
\* disconnect() calls of other threads interleave with its drain loop, and
\* the loop pops no job that it has already popped during the same call.
C22_ConnectTerminates ==
    /\ (pc["t2"] # "idle") ~> (pc["t2"] = "idle")
    /\ [][(pc["t2"] = "c_loop" /\ pc'["t2"] = "s_check") =>
             local'["t2"].job.job_id \notin local["t2"].taken]_vars

=============================================================================
